---- MODULE Spec2Model ----
(***************************************************************************)
(* Model of the slide-out panel plugin $.fn.panel of assets/js/main.js     *)
(* (the util.js part), as a state machine over browser callbacks.          *)
(*                                                                         *)
(* One action is one callback run to completion on the UI thread: the      *)
(* dispatch of one DOM event through every handler the plugin bound for    *)
(* it (in jQuery's order: delegated handlers of an element before its      *)
(* direct handlers, an element's handlers skipped once propagation was     *)
(* stopped at a deeper element), or the run of one window.setTimeout       *)
(* callback.                                                               *)
(***************************************************************************)
EXTENDS Integers, Sequences, FiniteSets, TLC

(***************************************************************************)
(* JavaScript values.  A value is a record with a type tag so that values  *)
(* of different JavaScript types can be compared.                          *)
(***************************************************************************)
Num(n) == [t |-> "number", n |-> n, s |-> ""]
Str(s) == [t |-> "string", n |-> 0, s |-> s]
Undefined == [t |-> "undefined", n |-> 0, s |-> ""]
Null == [t |-> "null", n |-> 0, s |-> ""]
NaN == [t |-> "nan", n |-> 0, s |-> ""]

\* a - b on JavaScript values: undefined converts to NaN, null to 0.
JsSub(a, b) ==
    IF a.t \in {"undefined", "nan"} \/ b.t \in {"undefined", "nan"}
    THEN NaN
    ELSE Num(a.n - b.n)

\* a < b and a > b on JavaScript numbers: every comparison with NaN is false.
JsLt(a, b) == a.t = "number" /\ b.t = "number" /\ a.n < b.n
JsGt(a, b) == a.t = "number" /\ b.t = "number" /\ a.n > b.n

(***************************************************************************)
(* Bounds of the model.                                                    *)
(***************************************************************************)
MaxTimers == 2          \* pending window.setTimeout callbacks
MaxForms == 2           \* forms nested in the panel

Forms == 1..MaxForms

\* Values of the `side' option tried; the code recognizes the four sides.
Sides == {Null, Str("left"), Str("right"), Str("top"), Str("bottom"),
          Str("none")}

\* The id attribute of the panel element: absent, or the id main.js gives.
PanelIds == {Undefined, Str("navPanel")}

\* href attributes of the anchors that are clicked.
Hrefs == {Undefined, Str(""), Str("#"), Str("#navPanel"), Str("/about")}

\* The anchors inside the panel that are clicked: one of each href, and one
\* that opens in a new window.
PanelAnchors ==
    {[href |-> h, target |-> Undefined] : h \in Hrefs}
        \cup {[href |-> Str("/about"), target |-> Str("_blank")]}

\* The anchors outside the panel that are clicked or tapped.
OutsideHrefs == {Str("#navPanel"), Str("/about")}

\* Key codes of the keys pressed (Enter, Escape).
KeyCodes == {13, 27}

(***************************************************************************)
(* UtilHelpers                                                             *)
(***************************************************************************)
isStringNotEmpty(value) == value.t = "string" /\ Len(value.s) > 0

\* Mutant: the defaults are copied over the caller's keys.
normalizeConfigDefaultsLast(defaults, options) ==
    [key \in (DOMAIN defaults) \cup (DOMAIN options) |->
        IF key \in DOMAIN defaults THEN defaults[key] ELSE options[key]]

\* Shallow merge of the caller's own keys over the defaults.
normalizeConfig(defaults, options) ==
    [key \in (DOMAIN defaults) \cup (DOMAIN options) |->
        IF key \in DOMAIN options THEN options[key] ELSE defaults[key]]

\* The defaults object of $.fn.panel.
PanelDefaults ==
    [delay |-> 0,
     hideOnClick |-> FALSE,
     hideOnEscape |-> FALSE,
     hideOnSwipe |-> FALSE,
     resetScroll |-> FALSE,
     resetForms |-> FALSE,
     side |-> Null,
     target |-> "$element",
     visibleClass |-> "visible"]

\* The option object main.js passes for #navPanel.
NavPanelConfig ==
    [delay |-> 500,
     hideOnClick |-> TRUE,
     hideOnSwipe |-> TRUE,
     resetScroll |-> TRUE,
     resetForms |-> TRUE,
     side |-> Str("right"),
     target |-> "$body",
     visibleClass |-> "is-navPanel-visible"]

\* The option objects callers pass.  The hide options are read by the event
\* handlers only and the reset options by the cleanup callback only, so the
\* family has every subset of the hide options (side given whenever
\* hideOnSwipe is) with both reset options, every subset of the reset
\* options with all the hide options, the empty object, the object of
\* main.js itself, and hideOnSwipe with each side, with no side, and the
\* side with no hideOnSwipe.
Restrict(f, keys) == [key \in keys |-> f[key]]

BehaviourOptions ==
    [hideOnClick |-> TRUE, hideOnEscape |-> TRUE, hideOnSwipe |-> TRUE,
     resetScroll |-> TRUE, resetForms |-> TRUE, side |-> Str("right")]

HideOptions == {"hideOnClick", "hideOnEscape", "hideOnSwipe"}
ResetOptions == {"resetScroll", "resetForms"}
WithSide(keys) == IF "hideOnSwipe" \in keys THEN keys \cup {"side"} ELSE keys

UserConfigs ==
    {Restrict(BehaviourOptions, WithSide(keys \cup ResetOptions)) :
        keys \in SUBSET HideOptions}
        \cup {Restrict(BehaviourOptions, WithSide(HideOptions \cup keys)) :
                keys \in SUBSET ResetOptions}
        \cup {Restrict(BehaviourOptions, {})}
        \cup {NavPanelConfig}
        \cup {[hideOnSwipe |-> TRUE, side |-> sd] : sd \in Sides}
        \cup {Restrict(BehaviourOptions, {"hideOnSwipe"}),
              Restrict(BehaviourOptions, {"side"})}

\* Touch points: where the finger goes down, and the displacements
\* (start - current) of the moves tried.  A swipe probe has one axis at or
\* next to the threshold of evaluateSwipe and the other at or next to its
\* tolerance band; (70, -10) is the scenario of the specification, (-60, 5)
\* and (-60, 30) are its direction example.  A drift is a vertical move.
TouchStarts == {<<100, 200>>}
NearBoundary == {-20, -19, 0, 19, 20}
SwipeProbes ==
    ({-51, 51} \X NearBoundary) \cup (NearBoundary \X {-51, 51})
        \cup {<<-50, 0>>, <<50, 0>>, <<0, -50>>, <<0, 50>>}
        \cup {<<70, -10>>, <<-70, 10>>, <<-60, 5>>, <<-60, 30>>}
Drifts == {<<0, -10>>, <<0, 10>>}

\* Scroll geometry of the panel element: its scrollHeight and outerHeight,
\* and the scroll offsets it is seen at (rubber-banding above the top, top,
\* middle, bottom).
PanelGeometry == [scrollHeight |-> 300, outerHeight |-> 200]
ScrollTops == {-1, 0, 50, 100}

\* The touchstart events tried: with a touch point, and without one.
TouchStartEvents ==
    {[hasTouch |-> TRUE, point |-> p] : p \in TouchStarts}
        \cup {[hasTouch |-> FALSE, point |-> <<0, 0>>]}

\* The touchmove events tried: without a touch point; a swipe probe with the
\* panel scrolled to the middle; a drift at every scroll offset.
MoveTo(d) == <<100 - d[1], 200 - d[2]>>
TouchMoveEvents ==
    {[hasTouch |-> FALSE, point |-> <<0, 0>>, scrollTop |-> 50]}
        \cup {[hasTouch |-> TRUE, point |-> MoveTo(d), scrollTop |-> 50] :
                    d \in SwipeProbes}
        \cup {[hasTouch |-> TRUE, point |-> MoveTo(d), scrollTop |-> st] :
                    d \in Drifts, st \in ScrollTops}

(***************************************************************************)
(* State                                                                   *)
(***************************************************************************)
VARIABLES
    userConfig,     \* the option object the caller passed to $.fn.panel
    inits,          \* the times $.fn.panel was called on the element
    config,         \* the merged configuration closed over by the handlers
    id,             \* the panel's id attribute, read at initialization
    targetClasses,  \* the class list of config.target
    touchPosX,      \* $element.touchPosX
    touchPosY,      \* $element.touchPosY
    timers,         \* pending window.setTimeout callbacks, oldest first
    last,           \* what the most recent callback did (observation)
    dom,            \* the elements $.prioritize moves: child lists, markers
    page            \* the page of main.js: viewport, nav content, parallax

vars == <<userConfig, inits, config, id, targetClasses, touchPosX, touchPosY,
         timers, last, dom, page>>

\* What the panel owns.
panelVars ==
    <<userConfig, inits, config, id, targetClasses, touchPosX, touchPosY, timers,
      last>>

\* jQuery class-list operations on config.target.
hasClass(classes, name) == name \in classes
removeClass(classes, name) == classes \ {name}
toggleClass(classes, name) ==
    IF name \in classes THEN classes \ {name} ELSE classes \cup {name}

\* "open" <=> target carries visibleClass.
IsOpen == hasClass(targetClasses, config.visibleClass)

(***************************************************************************)
(* $.prioritize(elements, condition)                                       *)
(***************************************************************************)
\* The document $.prioritize works on: NumParents parents with MaxChildren
\* children each, numbered in document order, and one element with no
\* parent.  0 stands for "no element".
MaxChildren == 3
NumParents == 2
Parents == 1..NumParents
Attached == 1..(NumParents * MaxChildren)
Detached == NumParents * MaxChildren + 1
Elements == Attached \cup {Detached}

InitialChildren ==
    [p \in Parents |-> [k \in 1..MaxChildren |-> (p - 1) * MaxChildren + k]]

\* No element carries the marker '__prioritize'; no call was made.
InitialDom ==
    [children |-> InitialChildren,
     data |-> [e \in Elements |-> 0],
     bySelector |-> FALSE,      \* elements is a selector, not a jQuery object
     matched |-> {},            \* the elements the caller passes
     coll |-> <<>>,             \* the elements of the jQuery object, in order
     calls |-> 0,               \* calls made
     condition |-> FALSE,       \* condition of the last call
     again |-> FALSE,           \* the last call got the elements argument
                                \* of the call before it
     top |-> {},                \* elements prependTo moved, until insertAfter
                                \* moves them (observation)
     before |-> [children |-> InitialChildren,      \* the document and the
                 data |-> [e \in Elements |-> 0],   \* condition before the
                 condition |-> FALSE]]              \* last call (observation)

Without(seq, e) == SelectSeq(seq, LAMBDA x : x # e)
IndexOf(seq, e) == CHOOSE i \in 1..Len(seq) : seq[i] = e
InsertAt(seq, i, e) == SubSeq(seq, 1, i) \o <<e>> \o SubSeq(seq, i + 1, Len(seq))
Contains(seq, e) == \E i \in 1..Len(seq) : seq[i] = e

\* $elem.parent(): the parent, or 0 for an empty result
parent(children, e) ==
    IF \E p \in Parents : Contains(children[p], e)
    THEN CHOOSE p \in Parents : Contains(children[p], e)
    ELSE 0

\* $elem.prev(): the sibling right before, or 0 for an empty result
prev(children, e) ==
    LET p == parent(children, e)
        i == IndexOf(children[p], e)
    IN  IF i = 1 THEN 0 ELSE children[p][i - 1]

\* $elem.prependTo($parent)
prependTo(children, e, p) ==
    LET taken == [q \in Parents |-> Without(children[q], e)]
    IN  [taken EXCEPT ![p] = <<e>> \o @]

\* $elem.insertAfter($placeholder)
insertAfter(children, e, placeholder) ==
    LET taken == [q \in Parents |-> Without(children[q], e)]
        p == parent(taken, placeholder)
    IN  IF p = 0 THEN children
        ELSE [taken EXCEPT ![p] = InsertAt(@, IndexOf(@, placeholder), e)]

\* The callback of $coll.each for one element.
prioritizeElem(d, e, condition) ==
    LET p == parent(d.children, e)
    IN  IF p = 0 THEN d
        ELSE IF d.data[e] = 0
        THEN IF ~condition THEN d
             ELSE IF prev(d.children, e) = 0 THEN d
             ELSE [d EXCEPT !.children = prependTo(@, e, p),
                            !.data[e] = prev(d.children, e),
                            !.top = @ \cup {e}]
        ELSE IF condition THEN d
             ELSE [d EXCEPT !.children = insertAfter(@, e, d.data[e]),
                            !.data[e] = 0,
                            !.top = @ \ {e}]

\* $coll.each(...): the elements of the collection in its order.
RECURSIVE prioritizeEach(_, _, _, _)
prioritizeEach(d, coll, i, condition) ==
    IF i > Len(coll) THEN d
    ELSE prioritizeEach(prioritizeElem(d, coll[i], condition), coll, i + 1, condition)

\* The elements of a set as a sequence in the given order of elements.
RECURSIVE Pick(_, _)
Pick(order, set) ==
    IF order = <<>> THEN <<>>
    ELSE (IF Head(order) \in set THEN <<Head(order)>> ELSE <<>>)
            \o Pick(Tail(order), set)

RECURSIVE Flatten(_, _)
Flatten(children, p) ==
    IF p > NumParents THEN <<>> ELSE children[p] \o Flatten(children, p + 1)

\* Document order: the parents in turn, the element with no parent last.
DocumentOrder(children) == Flatten(children, 1) \o <<Detached>>

\* $coll: a jQuery object holds its elements in the document order of the
\* moment it was built; a selector is evaluated by the call.
collection(d) ==
    IF d.bySelector
    THEN Pick(DocumentOrder(d.children), d.matched)
    ELSE d.coll

prioritize(d, condition) == prioritizeEach(d, collection(d), 1, condition)

\* One call of $.prioritize: with a selector or a jQuery object built for
\* it, or with the elements argument of the call before it.
call(d, matched, bySelector, condition, again) ==
    LET args == IF again THEN d
                ELSE [d EXCEPT !.matched = matched,
                               !.bySelector = bySelector,
                               !.coll = Pick(DocumentOrder(d.children), matched)]
    IN  [prioritize(args, condition) EXCEPT
            !.calls = @ + 1,
            !.condition = condition,
            !.again = again,
            !.before = [children |-> d.children, data |-> d.data,
                        condition |-> d.condition]]

\* $.prioritize(elements, true) on a document nothing was moved in.
PrioritizeTrue ==
    /\ dom.calls = 0
    /\ \E matched \in SUBSET Elements, bySelector \in BOOLEAN :
            \* a selector matches elements of the document only
            /\ bySelector => Detached \notin matched
            /\ dom' = call(dom, matched, bySelector, TRUE, FALSE)
    /\ UNCHANGED <<panelVars, page>>

\* $.prioritize(elements, false) with the same elements, right after.
PrioritizeFalse ==
    /\ dom.calls = 1
    /\ dom' = call(dom, dom.matched, dom.bySelector, FALSE, TRUE)
    /\ UNCHANGED <<panelVars, page>>

\* Calls of $.prioritize followed.
MaxCalls == 3

\* $.prioritize(elements, condition) with any elements and condition.
PrioritizeCall ==
    /\ dom.calls < MaxCalls
    /\ \E matched \in SUBSET Elements, bySelector \in BOOLEAN, condition \in BOOLEAN :
            /\ bySelector => Detached \notin matched
            /\ dom' = call(dom, matched, bySelector, condition, FALSE)
    /\ UNCHANGED <<panelVars, page>>

\* $.prioritize once more with the elements argument of the call before.
PrioritizeAgain ==
    /\ dom.calls > 0
    /\ dom.calls < MaxCalls
    /\ \E condition \in BOOLEAN :
            dom' = call(dom, dom.matched, dom.bySelector, condition, TRUE)
    /\ UNCHANGED <<panelVars, page>>

(***************************************************************************)
(* The page of main.js: breakpoints, $.fn._parallax, createNavPanel        *)
(***************************************************************************)
\* Bounds: the elements $.fn._parallax is called on, the children of #nav.
MaxSections == 2
MaxNavItems == 2
MaxBound == 2           \* handlers of scroll._parallax followed per element

Sections == 1..MaxSections
NavItems == 1..MaxNavItems

\* The upper ends of the ranges 'medium' and 'large' given to breakpoints().
mediumMax == 980
largeMax == 1280

\* Viewport widths (px) on both sides of each of the two, and scroll offsets.
Widths == {mediumMax, mediumMax + 1, largeMax, largeMax + 1}
ScrollOffsets == {0, 100}

\* The intensity argument, in thousandths: none, 0, and the 0.925 of main.js.
Intensities == {Undefined, Num(0), Num(925)}

\* CSS transform of a background element.
NoTransform == [kind |-> "unset", y |-> 0]
Matrix(y) == [kind |-> "matrix", y |-> y]       \* matrix(1,0,0,1,0,y)
TransformNone == [kind |-> "none", y |-> 0]

\* The page before main.js runs: the children of #nav in #nav, no
\* background element, nothing bound.
BarePage(width, icons, alt, degraded, intensity, sections) ==
    [viewport |-> width,
     widthBefore |-> width,     \* the width before the last resize
     scrollY |-> 0,
     degraded |-> degraded,     \* ie, edge, devicePixelRatio > 1 or mobile
     intensity |-> intensity,   \* the argument of $.fn._parallax
     sections |-> sections,     \* the elements $.fn._parallax is called on
     nav |-> [k \in NavItems |-> k],    \* children of #nav
     inner |-> <<>>,                    \* children of #navPanel > nav
     icons |-> icons,           \* the nav items with class icons or icon
     alt |-> alt,               \* the icons that carry class alt
     bg |-> [s \in Sections |-> <<>>],  \* the div.bg elements of a section
     scrollHandlers |-> <<>>,   \* handlers of scroll._parallax on window
     resizeBound |-> FALSE,     \* load._parallax resize._parallax is bound
     events |-> <<>>]           \* handlers registered with breakpoints.on

\* The queries main.js registers, on a viewport width.
active(query, width) ==
    CASE query = ">medium" -> width > mediumMax
      [] query = "<=medium" -> width <= mediumMax
      [] query = ">large" -> width > largeMax
      [] query = "<=large" -> width <= largeMax

\* The intensity the handlers close over: 0.25 unless one was given.
effectiveIntensity(intensity) ==
    IF intensity.t # "number" \/ intensity.n = 0 THEN 250 ELSE intensity.n

\* Where a section starts: $section.position().top
sectionTop(s) == (s - 1) * 100

enableParallax(pg, s) ==
    [pg EXCEPT !.bg[s] = [k \in DOMAIN @ |->
                            [fixed |-> FALSE, transform |-> Matrix(0)]],
               !.scrollHandlers = Append(@, s)]

\* $window.off('scroll._parallax') takes every handler of the namespace off.
disableParallax(pg, s) ==
    [pg EXCEPT !.bg[s] = [k \in DOMAIN @ |->
                            [fixed |-> TRUE, transform |-> TransformNone]],
               !.scrollHandlers = <<>>]

\* The handler enableParallax binds for scroll._parallax.
onParallaxScroll(pg, s) ==
    LET pos == pg.scrollY - sectionTop(s)
    IN  [pg EXCEPT !.bg[s] = [k \in DOMAIN @ |->
                    [@[k] EXCEPT !.transform =
                        Matrix(pos * effectiveIntensity(pg.intensity))]]]

\* $localWindow.trigger('scroll'), or a scroll of the window: the handlers
\* of scroll._parallax in the order they were bound.
RECURSIVE triggerScroll(_, _)
triggerScroll(pg, i) ==
    IF i > Len(pg.scrollHandlers) THEN pg
    ELSE triggerScroll(onParallaxScroll(pg, pg.scrollHandlers[i]), i + 1)

\* Mutant: the content is copied into the panel and stays in #nav.
onUpToMediumCopies(pg) ==
    [pg EXCEPT !.inner = SelectSeq(@, LAMBDA k : k \notin NavItems)
                            \o [k \in NavItems |-> k],
               !.alt = @ \cup pg.icons]

\* breakpoints.on('>medium', ...): NavPanel -> Nav.
onAboveMedium(pg) ==
    LET content == [k \in NavItems |-> k]
        moved == [pg EXCEPT
                    !.nav = SelectSeq(@, LAMBDA k : k \notin NavItems) \o content,
                    !.inner = SelectSeq(@, LAMBDA k : k \notin NavItems)]
    IN  [moved EXCEPT !.alt = @ \ {k \in pg.icons : Contains(moved.nav, k)}]

\* breakpoints.on('<=medium', ...): Nav -> NavPanel.
onUpToMedium(pg) ==
    LET content == [k \in NavItems |-> k]
        moved == [pg EXCEPT
                    !.inner = SelectSeq(@, LAMBDA k : k \notin NavItems) \o content,
                    !.nav = SelectSeq(@, LAMBDA k : k \notin NavItems)]
    IN  [moved EXCEPT !.alt = @ \cup {k \in pg.icons : Contains(moved.inner, k)}]

\* A handler registered with breakpoints.on runs.
notify(pg, ev) ==
    CASE ev.handler = "enableParallax" -> enableParallax(pg, ev.section)
      [] ev.handler = "disableParallax" -> disableParallax(pg, ev.section)
      [] ev.handler = "onAboveMedium" -> onAboveMedium(pg)
      [] ev.handler = "onUpToMedium" -> onUpToMedium(pg)

\* breakpoints.on(query, handler): the handler is registered, and runs at
\* once when the viewport is in the range of the query.
on(pg, query, handler, section) ==
    LET ev == [query |-> query, handler |-> handler, section |-> section]
        registered == [pg EXCEPT !.events = Append(@, ev)]
    IN  IF active(query, pg.viewport) THEN notify(registered, ev) ELSE registered

\* The utility looks at the viewport again (resize, orientationchange,
\* load): in the order they were registered, the handlers whose range the
\* viewport came into run; a handler whose range the viewport was in
\* already may be run once more (the one in `again', if any); no handler
\* runs outside its range.
RECURSIVE poll(_, _, _, _)
poll(pg, widthBefore, again, i) ==
    IF i > Len(pg.events) THEN pg
    ELSE LET ev == pg.events[i]
             entered == active(ev.query, pg.viewport)
                            /\ ~active(ev.query, widthBefore)
             repeated == active(ev.query, pg.viewport) /\ i \in again
         IN  poll(IF entered \/ repeated THEN notify(pg, ev) ELSE pg,
                  widthBefore, again, i + 1)

\* $.fn._parallax on the one element s.
parallaxSingle(pg, s) ==
    LET created == [pg EXCEPT !.bg[s] = Append(@, [fixed |-> FALSE,
                                                  transform |-> NoTransform])]
        bound == IF pg.degraded
                 THEN disableParallax(created, s)
                 ELSE on(on(created, ">large", "enableParallax", s),
                         "<=large", "disableParallax", s)
    IN  [bound EXCEPT !.resizeBound = TRUE]

RECURSIVE parallaxEach(_, _)
parallaxEach(pg, s) ==
    IF s > pg.sections THEN pg ELSE parallaxEach(parallaxSingle(pg, s), s + 1)

\* $.fn._parallax(intensity) on a collection of pg.sections elements.
parallax(pg) ==
    IF pg.sections = 0 \/ pg.intensity = Num(0) THEN pg
    ELSE parallaxEach(pg, 1)

\* createNavPanel: the two handlers that move the nav content.
createNavPanel(pg) ==
    on(on(pg, ">medium", "onAboveMedium", 0), "<=medium", "onUpToMedium", 0)

\* The page once main.js has run.
LoadedPage(width, icons, alt, degraded, intensity, sections) ==
    createNavPanel(parallax(BarePage(width, icons, alt, degraded, intensity,
                                     sections)))

\* The page of the template on a wide viewport: #wrapper._parallax(0.925).
MainPage == LoadedPage(largeMax + 1, {}, {}, FALSE, Num(925), 1)

\* The window is resized, or the utility polls for another reason with the
\* width as it is; then the handler of resize._parallax triggers scroll.
WindowResize ==
    /\ \E width \in Widths,
          again \in {{}} \cup {{i} : i \in 1..Len(page.events)} :
            LET polled == poll([page EXCEPT !.viewport = width,
                                            !.widthBefore = page.viewport],
                               page.viewport, again, 1)
            IN  /\ \A s \in Sections :
                        Cardinality({i \in 1..Len(polled.scrollHandlers) :
                                        polled.scrollHandlers[i] = s}) <= MaxBound
                /\ page' = IF polled.resizeBound THEN triggerScroll(polled, 1)
                           ELSE polled
    /\ UNCHANGED <<panelVars, dom>>

\* The window is scrolled.
WindowScroll ==
    /\ \E y \in ScrollOffsets :
            page' = triggerScroll([page EXCEPT !.scrollY = y], 1)
    /\ UNCHANGED <<panelVars, dom>>

(***************************************************************************)
(* Observation of one callback: the event it was dispatched for and the    *)
(* effects it had that are not part of the panel's own state.              *)
(***************************************************************************)
NoObs ==
    [cb |-> "none",           \* click, touchstart, touchmove, touchend,
                              \* keydown, cleanup, navigate
     inside |-> FALSE,        \* the event target is inside the panel
     anchor |-> FALSE,        \* the event target is an anchor
     href |-> Undefined,      \* href of that anchor / of the navigation
     target |-> Undefined,    \* target attribute that goes with href
     key |-> 0,               \* keyCode of a keydown
     touch |-> <<>>,          \* pageX, pageY of the touch of a touchstart
                              \* or touchmove, <<>> when it carries none
     startX |-> Undefined,    \* touchPosX when that event arrived
     startY |-> Undefined,    \* touchPosY when that event arrived
     scrollTop |-> 0,         \* $element.scrollTop() during a touchmove
     wasOpen |-> FALSE,       \* target carried visibleClass before
     prevented |-> FALSE,     \* event.preventDefault() was called
     stopped |-> FALSE,       \* event.stopPropagation() was called
     reachedBody |-> FALSE,   \* the event bubbled up to the handlers of body
     hideCalls |-> 0,         \* calls of $element._hide
     hideRan |-> FALSE,       \* _hide got past its visibility guard
     intercepted |-> FALSE,   \* the hideOnClick handler got past its guard
     swipe |-> FALSE,         \* evaluateSwipe returned true
     scheduled |-> 0,         \* window.setTimeout calls
     scrollThrew |-> FALSE,   \* $element.scrollTop(0) threw
     scrollReset |-> FALSE,   \* $element.scrollTop(0) took effect
     formsThrew |-> {},       \* forms whose reset() threw
     formsReset |-> {},       \* forms whose reset() took effect
     cleanupsAhead |-> 0,     \* pending cleanups set before the fired timer
     opened |-> "none",       \* "window" (window.open) or "location"
     elapsed |-> 0,           \* least time since the fired timer was set
     streak |-> 0,            \* consecutive clicks on the same #id anchor
     openBefore2 |-> FALSE,   \* wasOpen of the first click of a streak of 2
     escaped |-> FALSE,       \* an exception left the callback
     fault |-> "none"]        \* the DOM call that throws in this callback

\* The working state of a callback while its handlers run.
Ctx(obs) ==
    [classes |-> targetClasses, posX |-> touchPosX, posY |-> touchPosY,
     timers |-> timers, obs |-> obs]

\* The event object starts not prevented, not stopped.
EventObs(type, isInside, isAnchor, hrefVal, targetVal, keyCode) ==
    [NoObs EXCEPT !.cb = type, !.inside = isInside, !.anchor = isAnchor,
                  !.href = hrefVal, !.target = targetVal, !.key = keyCode,
                  !.wasOpen = IsOpen]

\* The DOM calls of the handlers that may be made to throw: $anchor.attr,
\* config.target.hasClass, .removeClass and .toggleClass.
Faults == {"attr", "hasClass", "removeClass", "toggleClass"}

\* The event as dispatched while DOM call f throws.
Faulted(obs, f) == [obs EXCEPT !.fault = f]

\* An exception leaves the handler: nothing after the throwing statement
\* runs, and jQuery's dispatch runs no further handler.
throw(c) == [c EXCEPT !.obs.escaped = TRUE]

\* window.setTimeout(callback, timeout)
setTimeout(c, kind, timeout, hrefVal, targetVal) ==
    [c EXCEPT !.timers = Append(@, [kind |-> kind, timeout |-> timeout,
                                    href |-> hrefVal, target |-> targetVal]),
              !.obs.scheduled = @ + 1]

\* event.preventDefault(); event.stopPropagation();
cancelEvent(c) == [c EXCEPT !.obs.prevented = TRUE, !.obs.stopped = TRUE]

(***************************************************************************)
(* $element._hide(event)                                                   *)
(***************************************************************************)
\* Mutant: _hide without its visibility guard.
hideUnguarded(c, withEvent) ==
    LET called == [c EXCEPT !.obs.hideCalls = @ + 1]
        cancelled == IF withEvent THEN cancelEvent(called) ELSE called
        removed == [cancelled EXCEPT
                        !.classes = removeClass(@, config.visibleClass),
                        !.obs.hideRan = TRUE]
    IN  setTimeout(removed, "cleanup", config.delay, Undefined, Undefined)

\* Mutant: _hide takes the cleanup that still waits out of the queue before
\* it sets the new one.
hideDebounced(c, withEvent) ==
    LET called == [c EXCEPT !.obs.hideCalls = @ + 1]
        cancelled == IF withEvent THEN cancelEvent(called) ELSE called
        removed == [cancelled EXCEPT
                        !.classes = removeClass(@, config.visibleClass),
                        !.timers = SelectSeq(@, LAMBDA t : t.kind # "cleanup"),
                        !.obs.hideRan = TRUE]
    IN  IF ~hasClass(c.classes, config.visibleClass)
        THEN called
        ELSE setTimeout(removed, "cleanup", config.delay, Undefined, Undefined)

\* hasClass and removeClass sit in a try/catch each: a throwing hasClass
\* ends _hide, a throwing removeClass leaves the class and goes on.
hide(c, withEvent) ==
    LET called == [c EXCEPT !.obs.hideCalls = @ + 1]
        cancelled == IF withEvent THEN cancelEvent(called) ELSE called
        removed == IF c.obs.fault = "removeClass"
                   THEN [cancelled EXCEPT !.obs.hideRan = TRUE]
                   ELSE [cancelled EXCEPT
                            !.classes = removeClass(@, config.visibleClass),
                            !.obs.hideRan = TRUE]
    IN  IF c.obs.fault = "hasClass"
        THEN called
        ELSE IF ~hasClass(c.classes, config.visibleClass)
        THEN called
        ELSE setTimeout(removed, "cleanup", config.delay, Undefined, Undefined)

(***************************************************************************)
(* Helper functions scoped to panel                                        *)
(***************************************************************************)
\* Mutant: the href "#" is not singled out.
isValidHrefIgnoringHash(href, panelId) ==
    IF ~isStringNotEmpty(href) THEN FALSE
    ELSE IF isStringNotEmpty(panelId) /\ href = Str("#" \o panelId.s) THEN FALSE
    ELSE TRUE

isValidHrefForPanelClick(href, panelId) ==
    IF ~isStringNotEmpty(href) THEN FALSE
    ELSE IF href = Str("#") THEN FALSE
    ELSE IF isStringNotEmpty(panelId) /\ href = Str("#" \o panelId.s) THEN FALSE
    ELSE TRUE

boundary == 20
delta == 50

\* Mutant: the comparisons with boundary and delta let the limits through.
evaluateSwipeInclusive(side, diffX, diffY) ==
    LET Le(a, b) == JsLt(a, b) \/ (a.t = "number" /\ a = b)
        Ge(a, b) == JsGt(a, b) \/ (a.t = "number" /\ a = b)
    IN  CASE side = Str("left") ->
                (Le(diffY, Num(boundary)) /\ Ge(diffY, Num(-1 * boundary)))
                    /\ Ge(diffX, Num(delta))
          [] side = Str("right") ->
                (Le(diffY, Num(boundary)) /\ Ge(diffY, Num(-1 * boundary)))
                    /\ Le(diffX, Num(-1 * delta))
          [] side = Str("top") ->
                (Le(diffX, Num(boundary)) /\ Ge(diffX, Num(-1 * boundary)))
                    /\ Ge(diffY, Num(delta))
          [] side = Str("bottom") ->
                (Le(diffX, Num(boundary)) /\ Ge(diffX, Num(-1 * boundary)))
                    /\ Le(diffY, Num(-1 * delta))
          [] OTHER -> FALSE

evaluateSwipe(side, diffX, diffY) ==
    CASE side = Str("left") ->
            (JsLt(diffY, Num(boundary)) /\ JsGt(diffY, Num(-1 * boundary)))
                /\ JsGt(diffX, Num(delta))
      [] side = Str("right") ->
            (JsLt(diffY, Num(boundary)) /\ JsGt(diffY, Num(-1 * boundary)))
                /\ JsLt(diffX, Num(-1 * delta))
      [] side = Str("top") ->
            (JsLt(diffX, Num(boundary)) /\ JsGt(diffX, Num(-1 * boundary)))
                /\ JsGt(diffY, Num(delta))
      [] side = Str("bottom") ->
            (JsLt(diffX, Num(boundary)) /\ JsGt(diffX, Num(-1 * boundary)))
                /\ JsLt(diffY, Num(-1 * delta))
      [] OTHER -> FALSE

\* The selector a[href="#<id>"] of the two id-gated handlers.
matchesIdAnchor(isAnchor, hrefVal) ==
    isAnchor /\ hrefVal = Str("#" \o id.s)


(***************************************************************************)
(* Handlers bound by $.fn.panel, in the order jQuery runs them.            *)
(***************************************************************************)

\* UtilHelpers.safeAttr: the attribute, or undefined when reading it throws.
safeAttr(c, value) == IF c.obs.fault = "attr" THEN Undefined ELSE value

\* Mutant: the redirect is set with the timeout of the cleanup.
onLinkClickNoExtraDelay(c, isAnchor, hrefVal, targetVal) ==
    IF ~(config.hideOnClick /\ isAnchor) THEN c
    ELSE IF ~isValidHrefForPanelClick(hrefVal, id) THEN c
    ELSE LET cancelled == cancelEvent([c EXCEPT !.obs.intercepted = TRUE])
             hidden == hide(cancelled, FALSE)
         IN  setTimeout(hidden, "navigate", config.delay, hrefVal, targetVal)

\* Mutant: the redirect is set only when _hide found the panel open.
onLinkClickOnlyWhenOpen(c, isAnchor, hrefVal, targetVal) ==
    IF ~(config.hideOnClick /\ isAnchor) THEN c
    ELSE IF ~isValidHrefForPanelClick(safeAttr(c, hrefVal), id) THEN c
    ELSE LET cancelled == cancelEvent([c EXCEPT !.obs.intercepted = TRUE])
             hidden == hide(cancelled, FALSE)
         IN  IF ~hidden.obs.hideRan THEN hidden
             ELSE setTimeout(hidden, "navigate", config.delay + 10,
                             safeAttr(c, hrefVal), safeAttr(c, targetVal))

\* $element.on('click', 'a', ...) when config.hideOnClick
onLinkClick(c, isAnchor, hrefVal, targetVal) ==
    IF ~(config.hideOnClick /\ isAnchor) THEN c
    ELSE IF ~isValidHrefForPanelClick(safeAttr(c, hrefVal), id) THEN c
    ELSE LET cancelled == cancelEvent([c EXCEPT !.obs.intercepted = TRUE])
             hidden == hide(cancelled, FALSE)
         IN  setTimeout(hidden, "navigate", config.delay + 10,
                        safeAttr(c, hrefVal), safeAttr(c, targetVal))

\* Mutant: the handler in the panel toggles the class as the one of body does.
onSelfAnchorClickToggles(c, isAnchor, hrefVal) ==
    IF isStringNotEmpty(id) /\ matchesIdAnchor(isAnchor, hrefVal)
    THEN [cancelEvent(c) EXCEPT
            !.classes = toggleClass(@, config.visibleClass)]
    ELSE c

\* Mutant: the handler is bound whatever the id is.
onSelfAnchorClickUnguarded(c, isAnchor, hrefVal) ==
    IF matchesIdAnchor(isAnchor, hrefVal)
    THEN [cancelEvent(c) EXCEPT
            !.classes = removeClass(@, config.visibleClass)]
    ELSE c

\* Mutant: the handler closes the panel through _hide.
onSelfAnchorClickViaHide(c, isAnchor, hrefVal) ==
    IF isStringNotEmpty(id) /\ matchesIdAnchor(isAnchor, hrefVal)
    THEN hide(cancelEvent(c), FALSE)
    ELSE c

\* $element.on('click', 'a[href="#id"]', ...) when the id is not empty
onSelfAnchorClick(c, isAnchor, hrefVal) ==
    IF isStringNotEmpty(id) /\ matchesIdAnchor(isAnchor, hrefVal)
    THEN IF c.obs.fault = "removeClass"
         THEN throw(cancelEvent(c))
         ELSE [cancelEvent(c) EXCEPT
                !.classes = removeClass(@, config.visibleClass)]
    ELSE c

\* Mutant: the direct handler of the panel lets the event bubble.
onPanelEventBubbling(c) == c

\* $element.on('click touchend touchstart touchmove', ...): a direct handler,
\* skipped when a delegated handler already stopped propagation.
onPanelEvent(c) ==
    IF c.obs.stopped \/ c.obs.escaped THEN c ELSE [c EXCEPT !.obs.stopped = TRUE]

\* Mutant: the toggle handler without event.stopPropagation(), so that the
\* direct handler of body runs after it.
onToggleAnchorClickBubbling(c, isAnchor, hrefVal) ==
    IF isStringNotEmpty(id) /\ matchesIdAnchor(isAnchor, hrefVal)
    THEN [c EXCEPT !.obs.prevented = TRUE,
                   !.classes = toggleClass(@, config.visibleClass)]
    ELSE c

\* $body.on('click', 'a[href="#id"]', ...) when the id is not empty
onToggleAnchorClick(c, isAnchor, hrefVal) ==
    IF isStringNotEmpty(id) /\ matchesIdAnchor(isAnchor, hrefVal)
    THEN IF c.obs.fault = "toggleClass"
         THEN throw(cancelEvent(c))
         ELSE [cancelEvent(c) EXCEPT
                !.classes = toggleClass(@, config.visibleClass)]
    ELSE c

\* $body.on('click touchend', ...): a direct handler of body, skipped when
\* propagation was stopped before it.
\* Mutant: body calls _hide without the event.
onBodyEventNoEvent(c) ==
    IF c.obs.stopped THEN c ELSE hide(c, FALSE)

onBodyEvent(c) ==
    IF c.obs.stopped \/ c.obs.escaped THEN c ELSE hide(c, TRUE)

\* Mutant: a call of $.fn.panel takes the handlers of the call before it
\* off before it binds its own.
bindingsDeduplicated == IF inits > 0 THEN 1 ELSE 0

\* The copies of each handler that are bound: every call of $.fn.panel binds
\* its own with .on and none looks for the ones bound before.
bindings == inits

\* $element.on('touchstart', ...)
onTouchStart(c, hasTouch, point) ==
    IF ~hasTouch THEN c
    ELSE [c EXCEPT !.posX = Num(point[1]), !.posY = Num(point[2])]

\* $element.on('touchmove', ...)
\* Mutant: a swipe leaves the stored position as it is.
onTouchMoveKeepsPosition(c, hasTouch, point, scrollTop) ==
    IF c.posX = Null \/ c.posY = Null THEN c
    ELSE IF ~hasTouch THEN c
    ELSE
      LET diffX == JsSub(c.posX, Num(point[1]))
          diffY == JsSub(c.posY, Num(point[2]))
          elementHeight == PanelGeometry.outerHeight
          scrollDistance == PanelGeometry.scrollHeight - scrollTop
          isSwipe == evaluateSwipe(config.side, diffX, diffY)
      IN  IF config.hideOnSwipe /\ isSwipe
          THEN cancelEvent(hide([c EXCEPT !.obs.swipe = TRUE], FALSE))
          ELSE IF (scrollTop < 0 /\ JsLt(diffY, Num(0)))
                   \/ (scrollDistance > (elementHeight - 2)
                        /\ scrollDistance < (elementHeight + 2)
                        /\ JsGt(diffY, Num(0)))
               THEN cancelEvent(c)
               ELSE c

\* Mutant: the swipe is tested with the differences negated.
onTouchMoveReversed(c, hasTouch, point, scrollTop) ==
    IF c.posX = Null \/ c.posY = Null THEN c
    ELSE IF ~hasTouch THEN c
    ELSE
      LET diffX == JsSub(c.posX, Num(point[1]))
          diffY == JsSub(c.posY, Num(point[2]))
          elementHeight == PanelGeometry.outerHeight
          scrollDistance == PanelGeometry.scrollHeight - scrollTop
          isSwipe == evaluateSwipe(config.side, JsSub(Num(0), diffX),
                                   JsSub(Num(0), diffY))
      IN  IF config.hideOnSwipe /\ isSwipe
          THEN cancelEvent(hide([c EXCEPT !.posX = Null, !.posY = Null,
                                          !.obs.swipe = TRUE], FALSE))
          ELSE IF (scrollTop < 0 /\ JsLt(diffY, Num(0)))
                   \/ (scrollDistance > (elementHeight - 2)
                        /\ scrollDistance < (elementHeight + 2)
                        /\ JsGt(diffY, Num(0)))
               THEN cancelEvent(c)
               ELSE c

onTouchMove(c, hasTouch, point, scrollTop) ==
    IF c.posX = Null \/ c.posY = Null THEN c
    ELSE IF ~hasTouch THEN c          \* TypeError, caught by the handler
    ELSE
      LET diffX == JsSub(c.posX, Num(point[1]))
          diffY == JsSub(c.posY, Num(point[2]))
          elementHeight == PanelGeometry.outerHeight
          scrollDistance == PanelGeometry.scrollHeight - scrollTop
          isSwipe == evaluateSwipe(config.side, diffX, diffY)
      IN  IF config.hideOnSwipe /\ isSwipe
          THEN \* return false: jQuery prevents the default and stops
               cancelEvent(hide([c EXCEPT !.posX = Null, !.posY = Null,
                                          !.obs.swipe = TRUE], FALSE))
          ELSE IF (scrollTop < 0 /\ JsLt(diffY, Num(0)))
                   \/ (scrollDistance > (elementHeight - 2)
                        /\ scrollDistance < (elementHeight + 2)
                        /\ JsGt(diffY, Num(0)))
               THEN cancelEvent(c)
               ELSE c

\* $window.on('keydown', ...) when config.hideOnEscape
\* Mutant: any key hides the panel.
onKeyDownAnyKey(c, keyCode) ==
    IF ~config.hideOnEscape THEN c ELSE hide(c, TRUE)

onKeyDown(c, keyCode) ==
    IF ~config.hideOnEscape THEN c
    ELSE IF keyCode = 27 THEN hide(c, TRUE) ELSE c

\* One bound handler with what the event gives it: `on` names the binding,
\* the other fields are the arguments of the handler.
handle(h, c) ==
    CASE h.on = "click a" ->
            onSelfAnchorClick(onLinkClick(c, h.isAnchor, h.href, h.target),
                              h.isAnchor, h.href)
      [] h.on = "click toggle" -> onToggleAnchorClick(c, h.isAnchor, h.href)
      [] h.on = "touchstart" -> onTouchStart(c, h.hasTouch, h.point)
      [] h.on = "touchmove" ->
            onTouchMove([c EXCEPT !.posX = h.posX, !.posY = h.posY],
                        h.hasTouch, h.point, h.scrollTop)
      [] h.on = "touchend" -> c
      [] h.on = "keydown" -> onKeyDown(c, h.keyCode)
      [] h.on = "panel" -> onPanelEvent(c)
      [] h.on = "body" -> onBodyEvent(c)

\* jQuery runs the handlers bound on one element for one event in the order
\* they were bound.  An exception that leaves a handler ends the dispatch.
EachInit(h, c) ==
    LET run[k \in 0..bindings] ==
            IF k = 0 THEN c
            ELSE IF run[k - 1].obs.escaped THEN run[k - 1]
            ELSE handle(h, run[k - 1])
    IN  run[bindings]

\* A direct handler of the element the event is at: it runs or not by
\* whether propagation was stopped when the event arrived at the element,
\* whatever the handlers of that element before it did
\* (stopImmediatePropagation is never called).
Direct(h, c, arrivedStopped) ==
    LET ran == handle(h, [c EXCEPT !.obs.stopped = arrivedStopped])
    IN  [ran EXCEPT !.obs.stopped = @ \/ c.obs.stopped]

\* The direct handlers that every call of $.fn.panel bound on one element,
\* in the order they were bound.
EachDirect(h, c, arrivedStopped) ==
    LET run[k \in 0..bindings] ==
            IF k = 0 THEN c
            ELSE IF run[k - 1].obs.escaped THEN run[k - 1]
            ELSE Direct(h, run[k - 1], arrivedStopped)
    IN  run[bindings]

\* The handlers of the panel element for a click inside it: the delegated
\* ones in the order they were bound, then the direct ones.
atPanelClick(c, isAnchor, hrefVal, targetVal) ==
    LET delegated ==
            EachInit([on |-> "click a", isAnchor |-> isAnchor, href |-> hrefVal,
                      target |-> targetVal], c)
    IN  EachDirect([on |-> "panel"], delegated, delegated.obs.stopped)

\* The handlers of the panel element for a touch event inside it, all of
\* them direct: of each call of $.fn.panel the handler of that event, then
\* the one that stops the propagation.
atPanelTouch(c, h) ==
    LET run[k \in 0..bindings] ==
            IF k = 0 THEN c
            ELSE IF run[k - 1].obs.escaped THEN run[k - 1]
            ELSE Direct([on |-> "panel"], handle(h, run[k - 1]), c.obs.stopped)
    IN  run[bindings]

\* The handlers of body for an event that bubbles up to it.
atBody(c, type, isAnchor, hrefVal) ==
    IF c.obs.stopped \/ c.obs.escaped THEN c
    ELSE LET reached == [c EXCEPT !.obs.reachedBody = TRUE]
             delegated ==
                IF type = "click"
                THEN EachInit([on |-> "click toggle", isAnchor |-> isAnchor,
                               href |-> hrefVal], reached)
                ELSE reached
         IN  IF type \in {"click", "touchend"}
             THEN EachDirect([on |-> "body"], delegated, delegated.obs.stopped)
             ELSE reached

(***************************************************************************)
(* Actions                                                                 *)
(***************************************************************************)

\* Is the observed callback a click on an a[href="#id"] of a panel with id?
IsIdAnchorClick(obs) ==
    obs.cb = "click" /\ isStringNotEmpty(id) /\ matchesIdAnchor(obs.anchor, obs.href)

\* The end of a callback: its effects become the state.  The queue of
\* timers has room for MaxTimers, and for the one more that each further
\* call of $.fn.panel makes a click set.
Commit(c) ==
    LET again == IsIdAnchorClick(c.obs) /\ IsIdAnchorClick(last)
                    /\ last.inside = c.obs.inside
        n == IF IsIdAnchorClick(c.obs) THEN (IF again THEN 2 ELSE 1) ELSE 0
    IN  /\ Len(c.timers) <= MaxTimers + (inits - 1)
        /\ targetClasses' = c.classes
        /\ touchPosX' = c.posX
        /\ touchPosY' = c.posY
        /\ timers' = c.timers
        /\ last' = [c.obs EXCEPT !.streak = n,
                                 !.openBefore2 = (n = 2) /\ last.wasOpen]
        /\ UNCHANGED <<userConfig, inits, config, id, dom, page>>

\* A click on an element of the document outside the panel.
ClickOutsideWith(f) ==
    \/ Commit(atBody(Ctx(Faulted(EventObs("click", FALSE, FALSE, Undefined,
                                          Undefined, 0), f)),
                     "click", FALSE, Undefined))
    \/ \E hrefVal \in OutsideHrefs :
            Commit(atBody(Ctx(Faulted(EventObs("click", FALSE, TRUE, hrefVal,
                                               Undefined, 0), f)),
                          "click", TRUE, hrefVal))

ClickOutside == ClickOutsideWith("none")

\* A click on an element inside the panel.
ClickInsideWith(f) ==
    \/ LET c0 == Ctx(Faulted(EventObs("click", TRUE, FALSE, Undefined,
                                      Undefined, 0), f))
       IN  Commit(atBody(atPanelClick(c0, FALSE, Undefined, Undefined),
                         "click", FALSE, Undefined))
    \/ \E a \in PanelAnchors :
            LET c0 == Ctx(Faulted(EventObs("click", TRUE, TRUE, a.href,
                                           a.target, 0), f))
            IN  Commit(atBody(atPanelClick(c0, TRUE, a.href, a.target),
                              "click", TRUE, a.href))

ClickInside == ClickInsideWith("none")

\* A touchstart inside the panel.
TouchStartInside ==
    \E e \in TouchStartEvents :
        LET ev == EventObs("touchstart", TRUE, FALSE, Undefined, Undefined, 0)
            c0 == Ctx([ev EXCEPT !.touch = IF e.hasTouch THEN e.point ELSE <<>>,
                                 !.startX = touchPosX, !.startY = touchPosY])
            c1 == atPanelTouch(c0, [on |-> "touchstart", hasTouch |-> e.hasTouch,
                                   point |-> e.point])
        IN  Commit(atBody(c1, "touchstart", FALSE, Undefined))

\* A touchmove inside the panel.  Each call of $.fn.panel keeps touchPosX
\* and touchPosY on a jQuery object of its own; the handlers of all calls
\* get the same events, so the copies are equal and one pair stands for
\* them: each handler finds the position the event found.
TouchMove(e) ==
    LET ev == EventObs("touchmove", TRUE, FALSE, Undefined, Undefined, 0)
        c0 == Ctx([ev EXCEPT !.touch = IF e.hasTouch THEN e.point ELSE <<>>,
                             !.startX = touchPosX, !.startY = touchPosY,
                             !.scrollTop = e.scrollTop])
        c1 == atPanelTouch(c0, [on |-> "touchmove", posX |-> c0.posX,
                                   posY |-> c0.posY, hasTouch |-> e.hasTouch,
                                   point |-> e.point, scrollTop |-> e.scrollTop])
    IN  Commit(atBody(c1, "touchmove", FALSE, Undefined))

TouchMoveInside == \E e \in TouchMoveEvents : TouchMove(e)

\* A touchend inside the panel.
TouchEndInside ==
    LET c0 == Ctx(EventObs("touchend", TRUE, FALSE, Undefined, Undefined, 0))
        c1 == atPanelTouch(c0, [on |-> "touchend"])
    IN  Commit(atBody(c1, "touchend", FALSE, Undefined))

\* A touchend on an element of the document outside the panel.
TouchEndOutside ==
    \/ Commit(atBody(Ctx(EventObs("touchend", FALSE, FALSE, Undefined, Undefined, 0)),
                     "touchend", FALSE, Undefined))
    \/ Commit(atBody(Ctx(EventObs("touchend", FALSE, TRUE, Str("#navPanel"),
                                  Undefined, 0)),
                     "touchend", TRUE, Str("#navPanel")))

\* A keydown reaching window.
KeyDownWith(f) ==
    \E keyCode \in KeyCodes :
        Commit(EachInit([on |-> "keydown", keyCode |-> keyCode],
                        Ctx(Faulted(EventObs("keydown", FALSE, FALSE, Undefined,
                                             Undefined, keyCode), f))))

KeyDown == KeyDownWith("none")

(***************************************************************************)
(* Timers                                                                  *)
(***************************************************************************)
RemoveAt(seq, i) == SubSeq(seq, 1, i - 1) \o SubSeq(seq, i + 1, Len(seq))

\* Timers carry no clock: a callback runs at some moment not earlier than
\* its timeout after it was set, and not before every timer that was set
\* before it with a timeout not greater than its own has run.
Due(i) == \A j \in 1..(i - 1) : timers[j].timeout > timers[i].timeout

\* catch (err) { console.warn(...) }: the exception is logged and goes no
\* further.  While obs.escaped is set an exception is on its way out and
\* the statements it passes are skipped.
tryCatch(obs) == [obs EXCEPT !.escaped = FALSE]

\* $element.scrollTop(0)
scrollToTop(obs, scrollThrows) ==
    IF scrollThrows
    THEN [obs EXCEPT !.scrollThrew = TRUE, !.escaped = TRUE]
    ELSE [obs EXCEPT !.scrollReset = TRUE]

\* this.reset() of one form
resetForm(obs, form, failing) ==
    IF form \in failing
    THEN [obs EXCEPT !.formsThrew = @ \cup {form}, !.escaped = TRUE]
    ELSE [obs EXCEPT !.formsReset = @ \cup {form}]

\* Mutant: the callback of each without its try/catch.
resetFormUncaught(obs, form, failing) == resetForm(obs, form, failing)

\* The callback passed to each: the reset of one form inside a try/catch of
\* its own.
resetFormCallback(obs, form, failing) == tryCatch(resetForm(obs, form, failing))

\* $element.find('form').each(...): the callback on the forms in document
\* order; an exception that leaves the callback ends the iteration.
RECURSIVE resetEachForm(_, _, _)
resetEachForm(obs, form, failing) ==
    IF form > MaxForms \/ obs.escaped THEN obs
    ELSE resetEachForm(resetFormCallback(obs, form, failing), form + 1, failing)

\* Mutant: the two steps of the callback share one try/catch.
cleanupOneTry(obs, scrollThrows, failing) ==
    LET scrolled == IF config.resetScroll
                    THEN scrollToTop(obs, scrollThrows)
                    ELSE obs
    IN  tryCatch(IF scrolled.escaped THEN scrolled
                 ELSE IF config.resetForms
                      THEN resetEachForm(scrolled, 1, failing)
                      ELSE scrolled)

\* The callback _hide passes to window.setTimeout: two steps, each in a
\* try/catch of its own.
cleanup(obs, scrollThrows, failing) ==
    LET scrolled == tryCatch(IF config.resetScroll
                             THEN scrollToTop(obs, scrollThrows)
                             ELSE obs)
    IN  IF scrolled.escaped THEN scrolled
        ELSE tryCatch(IF config.resetForms
                      THEN resetEachForm(scrolled, 1, failing)
                      ELSE scrolled)

\* The pending cleanups that were set before timer i.
CleanupsAhead(i) ==
    Cardinality({j \in 1..(i - 1) : timers[j].kind = "cleanup"})

TimerObs(i) ==
    [NoObs EXCEPT !.cb = timers[i].kind,
                  !.wasOpen = IsOpen,
                  !.elapsed = timers[i].timeout,
                  !.cleanupsAhead = CleanupsAhead(i)]

FireCleanup ==
    \E i \in 1..Len(timers), scrollThrows \in BOOLEAN, failing \in SUBSET Forms :
        /\ timers[i].kind = "cleanup"
        /\ Due(i)
        /\ timers' = RemoveAt(timers, i)
        /\ last' = cleanup(TimerObs(i), scrollThrows, failing)
        /\ UNCHANGED <<userConfig, inits, config, id, targetClasses, touchPosX,
                       touchPosY, dom, page>>

\* The callback the hideOnClick handler passes to window.setTimeout.
navigate(obs, hrefVal, targetVal) ==
    [obs EXCEPT !.href = hrefVal,
                !.target = targetVal,
                !.opened = IF targetVal = Str("_blank")
                           THEN "window" ELSE "location"]

FireNavigate ==
    \E i \in 1..Len(timers) :
        /\ timers[i].kind = "navigate"
        /\ Due(i)
        /\ timers' = RemoveAt(timers, i)
        /\ last' = navigate(TimerObs(i), timers[i].href, timers[i].target)
        /\ UNCHANGED <<userConfig, inits, config, id, targetClasses, touchPosX,
                       touchPosY, dom, page>>

(***************************************************************************)
(* Specification                                                           *)
(***************************************************************************)
Init ==
    /\ userConfig \in UserConfigs
    /\ inits = 1
    /\ config = normalizeConfig(PanelDefaults, userConfig)
    /\ id \in PanelIds
    /\ targetClasses \in {{}, {config.visibleClass}}
    /\ touchPosX = Undefined
    /\ touchPosY = Undefined
    /\ timers = <<>>
    /\ last = NoObs
    /\ dom = InitialDom
    /\ page = MainPage

Next ==
    \/ ClickOutside
    \/ ClickInside
    \/ TouchStartInside
    \/ TouchMoveInside
    \/ TouchEndInside
    \/ TouchEndOutside
    \/ KeyDown
    \/ FireCleanup
    \/ FireNavigate

Spec == Init /\ [][Next]_vars

\* The same panel while a DOM call of the handlers throws now and then.
FaultyClickOutside == \E f \in Faults : ClickOutsideWith(f)
FaultyClickInside == \E f \in Faults : ClickInsideWith(f)
FaultyKeyDown == \E f \in Faults : KeyDownWith(f)

FaultNext ==
    \/ Next
    \/ FaultyClickOutside
    \/ FaultyClickInside
    \/ FaultyKeyDown


(***************************************************************************)
(* Properties                                                              *)
(***************************************************************************)

\* The callbacks in which _hide is handed the event: the handlers of body
\* and of window.
HideGetsEvent(obs) ==
    \/ obs.cb \in {"click", "touchend"} /\ ~obs.inside
    \/ obs.cb = "keydown"

\* C1: _hide called while the target does not carry visibleClass is a no-op:
\* the class list is unchanged, the event handed to it is neither
\* default-prevented nor propagation-stopped, and it sets no timer (the only
\* timer of such a callback is the navigation of an intercepted link click),
\* so there is no scroll reset, no form reset and no navigation of its own.
C1_HideWhenClosedIsNoOp ==
    (last.hideCalls > 0 /\ ~last.wasOpen) =>
        /\ ~last.hideRan
        /\ ~IsOpen
        /\ (HideGetsEvent(last) => ~last.prevented /\ ~last.stopped)
        /\ last.scheduled = (IF last.intercepted THEN 1 ELSE 0)
        /\ (last.intercepted => timers[Len(timers)].kind = "navigate")

\* C1 witness: a tap outside the closed panel of a configuration with both
\* resets on reached _hide with its event.
C1_Witness ==
    /\ last.cb = "touchend" /\ ~last.inside
    /\ last.hideCalls = 1 /\ ~last.wasOpen
    /\ config.resetScroll /\ config.resetForms

\* C2: _hide called while the target carries visibleClass removes the class
\* in that callback, cancels the default action and the propagation of the
\* event handed to it, and sets exactly one timer, with timeout `delay',
\* whose callback scrolls the panel to the top iff resetScroll is set and
\* resets every form iff resetForms is set (but for a step that throws); a
\* scroll reset that throws does not keep the forms from being reset.
C2_HideWhenOpen ==
    /\ last.hideRan =>
        /\ last.wasOpen /\ ~IsOpen
        /\ (HideGetsEvent(last) => last.prevented /\ last.stopped)
        /\ last.scheduled = (IF last.intercepted THEN 2 ELSE 1)
        /\ LET k == IF last.intercepted THEN Len(timers) - 1 ELSE Len(timers)
           IN  timers[k].kind = "cleanup" /\ timers[k].timeout = config.delay
    /\ last.cb = "cleanup" =>
        /\ last.elapsed = config.delay
        /\ last.scrollReset = (config.resetScroll /\ ~last.scrollThrew)
        /\ (last.scrollThrew => config.resetScroll)
        /\ last.formsReset = (IF config.resetForms THEN Forms \ last.formsThrew ELSE {})
        /\ (last.formsThrew # {} => config.resetForms)
        /\ ~last.escaped

\* C2 witness: a cleanup whose scroll reset threw and whose forms were all
\* reset all the same.
C2_Witness ==
    /\ last.cb = "cleanup"
    /\ last.scrollThrew
    /\ last.formsReset = Forms


\* A click on an anchor with href "#<id>" of a panel that has an id.
IdAnchorClicked == IsIdAnchorClick(last)

\* C3 (as claimed): every click on an anchor whose href is "#<id>" flips
\* visibleClass on the target, and two such clicks in a row on the same
\* anchor leave it as it was before the first.
C3_EveryIdAnchorToggles ==
    IdAnchorClicked =>
        /\ IsOpen # last.wasOpen
        /\ (last.streak = 2 => IsOpen = last.openBefore2)

\* C3 (amended): every click on an anchor with href "#<id>" outside the
\* panel flips visibleClass on the target, and two such clicks in a row leave
\* it as it was before the first; a click on an anchor with that href inside
\* the panel removes visibleClass and never adds it.
C3_OutsideIdAnchorToggles ==
    IdAnchorClicked =>
        IF last.inside
        THEN ~IsOpen
        ELSE /\ IsOpen # last.wasOpen
             /\ (last.streak = 2 => IsOpen = last.openBefore2)

\* C3 witness: two clicks in a row on the toggle anchor outside the panel,
\* the first on the open panel, left it open.
C3_Witness ==
    /\ IdAnchorClicked /\ ~last.inside
    /\ last.streak = 2 /\ last.openBefore2 /\ ~last.wasOpen /\ IsOpen

\* The hrefs the hideOnClick handler is to ignore: missing, empty, "#", and
\* "#<id>" of a panel that has an id.
IgnoredHref(hrefVal) ==
    \/ hrefVal = Undefined
    \/ hrefVal = Str("")
    \/ hrefVal = Str("#")
    \/ id.t = "string" /\ id.s # "" /\ hrefVal = Str("#" \o id.s)

LinkClicked == last.cb = "click" /\ last.inside /\ last.anchor

\* C4: with hideOnClick, a click on an anchor inside the panel whose href is
\* missing, empty, "#" or "#<id>" is not intercepted: _hide is not called, no
\* timer is set, and the event is only cancelled by the handler of the
\* "#<id>" anchor, whether the panel is open or closed.
C4_IgnoredHrefNotIntercepted ==
    (config.hideOnClick /\ LinkClicked /\ IgnoredHref(last.href)) =>
        /\ ~last.intercepted
        /\ last.hideCalls = 0 /\ ~last.hideRan
        /\ last.scheduled = 0
        /\ (last.prevented => IdAnchorClicked)
        /\ (~IdAnchorClicked => IsOpen = last.wasOpen)

\* C4 witness: with hideOnClick, an anchor with href "#" inside the open
\* panel was clicked.
C4_Witness ==
    /\ config.hideOnClick /\ LinkClicked
    /\ last.href = Str("#") /\ last.wasOpen /\ IsOpen

\* C5: with hideOnClick and the panel open, a click on an anchor inside the
\* panel with any other href cancels the click, removes visibleClass in that
\* callback and sets, after the cleanup timer, one timer with timeout
\* delay + 10 for that href and target; when that timer runs, at least
\* delay + 10 has elapsed, no cleanup set before it is still pending, and it
\* opens a window iff the target is "_blank" and assigns location otherwise.
C5_LinkClickHidesThenNavigates ==
    /\ (config.hideOnClick /\ LinkClicked /\ ~IgnoredHref(last.href) /\ last.wasOpen) =>
        /\ last.intercepted /\ last.prevented /\ last.stopped
        /\ last.hideRan /\ ~IsOpen
        /\ last.scheduled = 2
        /\ timers[Len(timers) - 1].kind = "cleanup"
        /\ timers[Len(timers)] = [kind |-> "navigate",
                                  timeout |-> config.delay + 10,
                                  href |-> last.href, target |-> last.target]
    /\ last.cb = "navigate" =>
        /\ last.elapsed >= config.delay + 10
        /\ last.cleanupsAhead = 0
        /\ last.opened = (IF last.target = Str("_blank") THEN "window" ELSE "location")
        /\ ~IgnoredHref(last.href)

\* C5 witness: the redirect of a link with target "_blank" ran, 510 ms or
\* more after the click, and opened a window on "/about".
C5_Witness ==
    /\ last.cb = "navigate"
    /\ last.href = Str("/about") /\ last.opened = "window"
    /\ last.elapsed = 510


\* The observed callback is a touchmove with a touch point that arrived
\* while touchstart had stored both coordinates.
TrackedMove ==
    /\ last.cb = "touchmove" /\ last.touch # <<>>
    /\ last.startX.t = "number" /\ last.startY.t = "number"

\* The displacement of that touchmove, start - current: positive DiffX is a
\* move to the left, positive DiffY a move up.
DiffX == last.startX.n - last.touch[1]
DiffY == last.startY.n - last.touch[2]

Abs(n) == IF n < 0 THEN -n ELSE n

\* A move of more than 50px away from the side, under 20px off axis.
AwayFromSide(side, diffX, diffY) ==
    \/ side = Str("right") /\ diffX > 50 /\ Abs(diffY) < 20
    \/ side = Str("left") /\ diffX < -50 /\ Abs(diffY) < 20
    \/ side = Str("top") /\ diffY < -50 /\ Abs(diffX) < 20
    \/ side = Str("bottom") /\ diffY > 50 /\ Abs(diffX) < 20

\* A move of more than 50px towards the side, under 20px off axis.
TowardSide(side, diffX, diffY) ==
    \/ side = Str("right") /\ diffX < -50 /\ Abs(diffY) < 20
    \/ side = Str("left") /\ diffX > 50 /\ Abs(diffY) < 20
    \/ side = Str("top") /\ diffY > 50 /\ Abs(diffX) < 20
    \/ side = Str("bottom") /\ diffY < -50 /\ Abs(diffX) < 20

\* What a recognised swipe does in its callback.
SwipeHandled ==
    /\ last.swipe /\ last.prevented /\ last.stopped
    /\ touchPosX = Null /\ touchPosY = Null
    /\ ~IsOpen
    /\ (last.wasOpen => last.hideRan)

\* C6 (as claimed): with hideOnSwipe, a tracked touch that moves more than
\* 50px away from the configured side with under 20px off-axis drift is
\* handled as a swipe: visibleClass removed, the stored position cleared,
\* the event cancelled.
C6_SwipeAwayFromSideHides ==
    (TrackedMove /\ config.hideOnSwipe /\ AwayFromSide(config.side, DiffX, DiffY))
        => SwipeHandled

\* C6 (amended): with hideOnSwipe, a tracked touch that moves more than 50px
\* towards the configured side (to the right for 'right', to the left for
\* 'left', up for 'top', down for 'bottom') with under 20px off-axis drift is
\* handled as a swipe: visibleClass removed, the stored position cleared,
\* the event cancelled; the same move away from the side is not a swipe.
C6_SwipeTowardSideHides ==
    (TrackedMove /\ config.hideOnSwipe) =>
        /\ TowardSide(config.side, DiffX, DiffY) => SwipeHandled
        /\ AwayFromSide(config.side, DiffX, DiffY) => ~last.swipe

\* C6 witness: a swipe of 70px to the right on the open panel on the right
\* closed it and cleared the stored position.
C6_Witness ==
    /\ TrackedMove /\ last.swipe
    /\ config.side = Str("right") /\ DiffX = -70
    /\ last.wasOpen /\ ~IsOpen
    /\ touchPosX = Null /\ touchPosY = Null

\* The moves the swipe test is to reject: hideOnSwipe off, a side that is
\* none of the four, 20px or more off axis, or 50px or less along the axis.
NotASwipe(side, diffX, diffY) ==
    \/ ~config.hideOnSwipe
    \/ side \notin {Str("left"), Str("right"), Str("top"), Str("bottom")}
    \/ side \in {Str("left"), Str("right")} /\ (Abs(diffY) >= 20 \/ Abs(diffX) <= 50)
    \/ side \in {Str("top"), Str("bottom")} /\ (Abs(diffX) >= 20 \/ Abs(diffY) <= 50)

\* C7: a tracked touchmove that is 20px or more off axis, or 50px or less
\* along the axis, or arrives with hideOnSwipe off or with a side that is
\* none of the four, is not a swipe: _hide is not called and visibleClass
\* and the stored position stay as they are; on the right, 60px with 30px
\* of drift is not a swipe and 60px towards the side with 5px of drift is.
C7_NotASwipeLeavesPanel ==
    TrackedMove =>
        /\ NotASwipe(config.side, DiffX, DiffY) =>
              /\ ~last.swipe /\ last.hideCalls = 0 /\ ~last.hideRan
              /\ IsOpen = last.wasOpen
              /\ touchPosX = last.startX /\ touchPosY = last.startY
        /\ (config.hideOnSwipe /\ config.side = Str("right")
              /\ DiffX = -60 /\ DiffY = 5) => last.swipe

\* C7 witness: with hideOnSwipe and the open panel on the right, a move of
\* exactly 50px towards the side was not a swipe and left the panel open
\* and the touch tracked.
C7_Witness ==
    /\ TrackedMove /\ ~last.swipe /\ last.hideCalls = 0
    /\ config.hideOnSwipe /\ config.side = Str("right")
    /\ DiffX = -50 /\ DiffY = 0
    /\ last.wasOpen /\ IsOpen /\ touchPosX = last.startX

\* C8: with resetForms, the cleanup callback calls reset on every form of
\* the panel: a form whose reset throws does not keep the later ones from
\* being reset, and no exception leaves the callback.
C8_EveryFormReset ==
    (last.cb = "cleanup" /\ config.resetForms) =>
        /\ last.formsReset \cup last.formsThrew = Forms
        /\ last.formsReset \cap last.formsThrew = {}
        /\ ~last.escaped

\* C8 witness: the first form threw and the ones after it were reset.
C8_Witness ==
    /\ last.cb = "cleanup" /\ config.resetForms
    /\ last.formsThrew = {1} /\ last.formsReset = Forms \ {1}

OutsideEvent == last.cb \in {"click", "touchend"} /\ ~last.inside

\* C9: a click or touchend outside the panel hides the open panel and
\* cancels the event; on a closed panel it changes nothing and the event is
\* left alone, unless it is a click on the toggle anchor of the panel.
C9_OutsideEventHides ==
    OutsideEvent =>
        /\ last.wasOpen => (~IsOpen /\ last.prevented)
        /\ (last.wasOpen /\ ~IdAnchorClicked) =>
              /\ ~IsOpen /\ last.hideRan
              /\ last.prevented /\ last.stopped
              /\ last.scheduled = 1
              /\ timers[Len(timers)].kind = "cleanup"
        /\ (~last.wasOpen /\ ~IdAnchorClicked) =>
              /\ ~IsOpen /\ ~last.hideRan
              /\ ~last.prevented /\ ~last.stopped
              /\ last.scheduled = 0

\* C9 witness: a click on a link outside the open panel closed the panel and
\* was cancelled.
C9_Witness ==
    /\ OutsideEvent /\ last.cb = "click"
    /\ last.anchor /\ last.href = Str("/about")
    /\ last.wasOpen /\ ~IsOpen /\ last.prevented

\* C10: hideOnEscape is off by default; with it on, a keydown with keyCode
\* 27 hides the open panel and sets its cleanup; a keydown with another
\* keyCode, or with hideOnEscape off, or on a closed panel, changes nothing.
C10_EscapeHides ==
    /\ ~PanelDefaults.hideOnEscape
    /\ last.cb = "keydown" =>
        IF config.hideOnEscape /\ last.key = 27 /\ last.wasOpen
        THEN /\ ~IsOpen /\ last.hideRan
             /\ last.scheduled = 1
             /\ timers[Len(timers)].kind = "cleanup"
        ELSE /\ IsOpen = last.wasOpen /\ ~last.hideRan
             /\ last.scheduled = 0

\* C10 witness: with hideOnEscape, Escape closed the open panel.
C10_Witness ==
    /\ last.cb = "keydown" /\ last.key = 27
    /\ config.hideOnEscape /\ last.wasOpen /\ ~IsOpen

NoCoordinates == touchPosX = Null /\ touchPosY = Null

\* C11: the stored touch position is null whenever no gesture is under way:
\* before the first touchstart, after a touchend on the panel, and after a
\* recognised swipe.
C11_IdleHasNoCoordinates ==
    /\ last.cb = "none" => NoCoordinates
    /\ (last.cb = "touchend" /\ last.inside) => NoCoordinates
    /\ (last.cb = "touchmove" /\ last.swipe) => NoCoordinates

\* Timers run: a callback whose turn has come is not put off for ever.  The
\* panels followed are the one of main.js, one with every option on and one
\* with no option at all.
FairConfigs == {NavPanelConfig, BehaviourOptions, Restrict(BehaviourOptions, {})}

FairInit ==
    /\ Init
    /\ userConfig \in FairConfigs

FairSpec ==
    FairInit /\ [][Next]_vars /\ WF_vars(FireCleanup) /\ WF_vars(FireNavigate)

\* The cleanup callbacks waiting in the timer queue.
PendingCleanups == Cardinality({i \in 1..Len(timers) : timers[i].kind = "cleanup"})

\* One step changes the number of waiting cleanups by one up when _hide got
\* past its guard and by one down when a cleanup ran, and by nothing else.
CleanupsAccounted ==
    PendingCleanups' = PendingCleanups
                        + (IF last'.hideRan THEN 1 ELSE 0)
                        - (IF last'.cb = "cleanup" THEN 1 ELSE 0)

\* C12: each _hide that finds the panel open sets exactly one cleanup, no
\* step takes a cleanup out of the queue but its own run, the cleanups run
\* in the order they were set, and while one waits a cleanup does run,
\* whatever events arrive in between.
C12_EveryHideGetsItsCleanup ==
    /\ [][CleanupsAccounted]_vars
    /\ [](last.cb = "cleanup" => last.cleanupsAhead = 0)
    /\ (PendingCleanups > 0) ~> (last.cb = "cleanup")

\* C12 witness: two cleanups were waiting, the panel was open again, and the
\* first of them ran.
C12_Witness ==
    /\ last.cb = "cleanup" /\ PendingCleanups = 1
    /\ last.wasOpen /\ IsOpen

\* The document alone: no panel event arrives.
PrioritizeInit ==
    /\ userConfig = Restrict(BehaviourOptions, {})
    /\ inits = 1
    /\ config = normalizeConfig(PanelDefaults, userConfig)
    /\ id = Undefined
    /\ targetClasses = {}
    /\ touchPosX = Undefined
    /\ touchPosY = Undefined
    /\ timers = <<>>
    /\ last = NoObs
    /\ dom = InitialDom
    /\ page = MainPage

PrioritizeNext == PrioritizeTrue \/ PrioritizeFalse

PrioritizeSpec == PrioritizeInit /\ [][PrioritizeNext]_vars

\* C13: after $.prioritize(elements, true) and then
\* $.prioritize(elements, false), every parent has its children in the
\* order they had before the first call and no element carries the marker.
C13_PrioritizeRoundTrips ==
    dom.calls = 2 =>
        /\ dom.children = InitialChildren
        /\ \A e \in Elements : dom.data[e] = 0

\* A panel whose element has no id attribute, or an empty one.
NoIds == {Undefined, Str("")}

NoIdInit ==
    /\ userConfig \in UserConfigs
    /\ inits = 1
    /\ config = normalizeConfig(PanelDefaults, userConfig)
    /\ id \in NoIds
    /\ targetClasses \in {{}, {config.visibleClass}}
    /\ touchPosX = Undefined
    /\ touchPosY = Undefined
    /\ timers = <<>>
    /\ last = NoObs
    /\ dom = InitialDom
    /\ page = MainPage

NoIdSpec == NoIdInit /\ [][Next]_vars

\* C14: on a panel with no id or an empty id no callback adds visibleClass;
\* an outside click or touchend and a recognised swipe still hide the open
\* panel; and an anchor click is cancelled by no id handler: inside the
\* panel only by the hideOnClick handler, outside only by _hide.
C14_NoIdNeverOpens ==
    /\ ~isStringNotEmpty(id)
    /\ last.cb # "none" => (IsOpen => last.wasOpen)
    /\ (OutsideEvent /\ last.wasOpen) => (~IsOpen /\ last.hideRan)
    /\ (last.cb = "touchmove" /\ last.swipe /\ last.wasOpen) => (~IsOpen /\ last.hideRan)
    /\ (LinkClicked /\ ~last.intercepted) => (~last.prevented /\ IsOpen = last.wasOpen)
    /\ (OutsideEvent /\ ~last.wasOpen) => ~last.prevented

\* C14 witness: on a panel with an empty id, a click on an anchor with href
\* "#navPanel" outside the open panel hid it through _hide.
C14_Witness ==
    /\ id = Str("")
    /\ OutsideEvent /\ last.cb = "click" /\ last.anchor
    /\ last.href = Str("#navPanel")
    /\ last.wasOpen /\ ~IsOpen /\ last.hideRan

FaultSpec == FairInit /\ [][FaultNext]_vars

\* C15: whichever DOM call of a handler throws, no exception leaves the
\* event callback, and when removeClass throws in _hide the cleanup is set
\* all the same.
C15_FailuresStayInside ==
    /\ ~last.escaped
    /\ (last.fault = "removeClass" /\ last.hideRan) => last.scheduled >= 1

\* C16: a recognised swipe, in its own callback, sets both stored
\* coordinates to null, calls _hide (on an open panel: visibleClass removed,
\* one cleanup set) and cancels the event; a touchmove that finds the
\* coordinates null does nothing; a touchstart with a touch point stores its
\* coordinates and one with none leaves the stored ones as they are.
C16_SwipeEndsTracking ==
    /\ (last.cb = "touchmove" /\ last.swipe) =>
            /\ NoCoordinates
            /\ last.prevented /\ last.stopped
            /\ last.hideCalls = 1 /\ ~IsOpen
            /\ last.wasOpen =>
                    /\ last.hideRan /\ last.scheduled = 1
                    /\ timers[Len(timers)].kind = "cleanup"
    /\ (last.cb = "touchmove" /\ (last.startX = Null \/ last.startY = Null)) =>
            /\ NoCoordinates
            /\ ~last.swipe /\ last.hideCalls = 0 /\ ~last.prevented
            /\ IsOpen = last.wasOpen /\ last.scheduled = 0
    /\ last.cb = "touchstart" =>
            IF last.touch # <<>>
            THEN touchPosX = Num(last.touch[1]) /\ touchPosY = Num(last.touch[2])
            ELSE touchPosX = last.startX /\ touchPosY = last.startY

\* C16 witness: after a swipe, with the panel open again, a touchmove 70px
\* towards the side found the coordinates null and was ignored.
C16_Witness ==
    /\ last.cb = "touchmove" /\ last.startX = Null
    /\ last.touch = <<170, 190>>
    /\ config.hideOnSwipe /\ config.side = Str("right")
    /\ IsOpen /\ NoCoordinates /\ ~last.prevented

\* The panel is scrolled to the top, or to within 2px of the bottom.
AtTop == last.scrollTop = 0
AtBottom ==
    Abs(PanelGeometry.scrollHeight - last.scrollTop - PanelGeometry.outerHeight) < 2

\* C17: a tracked touchmove that is not a swipe has its default prevented
\* exactly when the panel is scrolled to the top and the drag pulls past
\* the top (diffY < 0), or is scrolled to the bottom and the drag pulls past
\* the bottom (diffY > 0).  Scroll offsets below 0 are left aside.
C17_OverscrollGuard ==
    (TrackedMove /\ ~last.swipe /\ last.scrollTop >= 0) =>
        (last.prevented <=> ((AtTop /\ DiffY < 0) \/ (AtBottom /\ DiffY > 0)))

InsideEvent ==
    last.inside /\ last.cb \in {"click", "touchstart", "touchmove", "touchend"}

\* C18: a click, touchstart, touchmove or touchend inside the panel has its
\* propagation stopped before body: neither handler of body runs for it,
\* and a click or tap on something that is no anchor leaves visibleClass as
\* it is, calls no _hide and sets no timer.
C18_InsideEventsStayInside ==
    InsideEvent =>
        /\ last.stopped /\ ~last.reachedBody
        /\ (~last.anchor /\ last.cb # "touchmove") =>
                /\ IsOpen = last.wasOpen
                /\ last.hideCalls = 0 /\ last.scheduled = 0
                /\ ~last.prevented

\* C18 witness: a touchend on the open panel left it open.
C18_Witness ==
    /\ InsideEvent /\ last.cb = "touchend"
    /\ last.wasOpen /\ IsOpen /\ last.stopped

\* C19: a click on an anchor with href "#<id>" inside the panel is
\* cancelled and stopped, leaves the target without visibleClass whether it
\* had it or not, and does not reach the toggle handler of body.
C19_SelfAnchorOnlyCloses ==
    (IdAnchorClicked /\ last.inside) =>
        /\ last.prevented /\ last.stopped
        /\ ~IsOpen
        /\ ~last.reachedBody

\* C19 witness: the anchor was clicked in the closed panel, which stayed
\* closed.
C19_Witness ==
    /\ IdAnchorClicked /\ last.inside
    /\ ~last.wasOpen /\ ~IsOpen /\ last.prevented

\* The defaults of the options.
DocumentedDefaults ==
    /\ PanelDefaults.delay = 0
    /\ ~PanelDefaults.hideOnClick /\ ~PanelDefaults.hideOnEscape
    /\ ~PanelDefaults.hideOnSwipe
    /\ ~PanelDefaults.resetScroll /\ ~PanelDefaults.resetForms
    /\ PanelDefaults.side = Null
    /\ PanelDefaults.visibleClass = "visible"
    /\ PanelDefaults.target = "$element"

TwiceInit ==
    /\ userConfig \in FairConfigs
    /\ inits = 2
    /\ config = normalizeConfig(PanelDefaults, userConfig)
    /\ id \in PanelIds
    /\ targetClasses \in {{}, {config.visibleClass}}
    /\ touchPosX = Undefined
    /\ touchPosY = Undefined
    /\ timers = <<>>
    /\ last = NoObs
    /\ dom = InitialDom
    /\ page = MainPage

TwiceSpec == TwiceInit /\ [][Next]_vars

\* The navigations at the end of the timer queue that one click set.
NavigationsSet ==
    Cardinality({i \in 1..Len(timers) :
                    /\ i > Len(timers) - last.scheduled
                    /\ timers[i] = [kind |-> "navigate",
                                    timeout |-> config.delay + 10,
                                    href |-> last.href, target |-> last.target]})

\* C21: after two calls of $.fn.panel on the same element every handler runs
\* twice for one event: one click on the toggle anchor outside the panel
\* toggles twice and leaves visibleClass as it was, one intercepted link
\* click sets two navigations (and one cleanup when the panel was open), and
\* an outside click, an Escape and a swipe call _hide twice.
C21_TwiceBoundRunsTwice ==
    /\ inits = 2
    /\ (IdAnchorClicked /\ ~last.inside) =>
            /\ IsOpen = last.wasOpen
            /\ last.prevented /\ last.stopped /\ last.hideCalls = 0
    /\ (config.hideOnClick /\ LinkClicked /\ ~IgnoredHref(last.href)) =>
            /\ last.intercepted /\ last.hideCalls = 2
            /\ NavigationsSet = 2
            /\ last.scheduled = (IF last.wasOpen THEN 3 ELSE 2)
    /\ (OutsideEvent /\ ~IdAnchorClicked) => last.hideCalls = 2
    /\ (last.cb = "keydown" /\ config.hideOnEscape /\ last.key = 27) =>
            last.hideCalls = 2
    /\ (last.cb = "touchmove" /\ last.swipe) => last.hideCalls = 2
    /\ last.hideRan => last.scheduled - NavigationsSet = 1

\* C21 witness: one click on a link in the open panel set one cleanup and
\* two navigations.
C21_Witness ==
    /\ inits = 2
    /\ LinkClicked /\ last.intercepted /\ last.wasOpen /\ ~IsOpen
    /\ last.scheduled = 3 /\ NavigationsSet = 2

\* Any calls of $.prioritize, one after the other.
PrioritizeCallsNext == PrioritizeCall \/ PrioritizeAgain

PrioritizeCallsSpec == PrioritizeInit /\ [][PrioritizeCallsNext]_vars

\* The last call left the document and the markers as they were.
CallChangedNothing ==
    dom.children = dom.before.children /\ dom.data = dom.before.data

\* e was the first child of its parent before the last call.
WasFirstChild(e) ==
    \E p \in Parents : dom.before.children[p] # <<>> /\ Head(dom.before.children[p]) = e

\* A second call with condition true and the same elements changes nothing.
TrueTwiceIsTrueOnce ==
    (dom.again /\ dom.condition /\ dom.before.condition) => CallChangedNothing

\* A call with condition false on elements none of which carries the marker
\* changes nothing.
FalseOnUnmovedIsNoOp ==
    (dom.calls > 0 /\ ~dom.condition
        /\ \A e \in dom.matched : dom.before.data[e] = 0) => CallChangedNothing

\* An unmarked first child in a collection in document order is neither
\* moved nor marked.
FirstChildStays ==
    (dom.calls > 0 /\ dom.condition /\ ~dom.again) =>
        \A e \in dom.matched :
            (WasFirstChild(e) /\ dom.before.data[e] = 0) =>
                (dom.data[e] = 0 /\ e \notin dom.top)

\* The marker is on the elements that prependTo moved and insertAfter did
\* not move back.
MarkerIffAtTop == \A e \in Elements : (dom.data[e] # 0) <=> (e \in dom.top)

\* C22: $.prioritize with condition true twice has the result of once; with
\* condition false on elements that were not moved it changes nothing; an
\* element that is the first child of its parent is neither moved nor
\* marked; and after any calls an element carries the marker exactly when a
\* call with condition true moved it to the top and none moved it back.
C22_PrioritizeIdempotent ==
    /\ TrueTwiceIsTrueOnce
    /\ FalseOnUnmovedIsNoOp
    /\ FirstChildStays
    /\ MarkerIffAtTop

\* The cleanups among the timers the last callback set.
CleanupsSet ==
    Cardinality({i \in 1..Len(timers) :
                    /\ i > Len(timers) - last.scheduled
                    /\ timers[i] = [kind |-> "cleanup", timeout |-> config.delay,
                                    href |-> Undefined, target |-> Undefined]})

\* The callbacks that call _hide: a click or touchend outside the panel
\* that is not a click on the toggle anchor, Escape with hideOnEscape, a
\* recognised swipe, an intercepted link click.
CallsHide ==
    \/ OutsideEvent /\ ~IdAnchorClicked
    \/ last.cb = "keydown" /\ config.hideOnEscape /\ last.key = 27
    \/ last.cb = "touchmove" /\ last.swipe
    \/ LinkClicked /\ last.intercepted

\* C25: a callback sets the cleanup exactly when it calls _hide while the
\* panel is open, and then sets one: a click or touchend outside, Escape, a
\* recognised swipe, an intercepted link click.  A click on an anchor with
\* href "#<id>", outside or inside the open panel, removes visibleClass,
\* calls no _hide and sets no timer.
C25_CleanupOnlyThroughHide ==
    /\ CleanupsSet = (IF CallsHide /\ last.wasOpen THEN 1 ELSE 0)
    /\ (last.hideCalls > 0) <=> CallsHide
    /\ last.hideRan <=> (CallsHide /\ last.wasOpen)
    /\ (IdAnchorClicked /\ last.wasOpen) =>
            /\ ~IsOpen
            /\ last.hideCalls = 0 /\ last.scheduled = 0
    /\ last.cb \in {"cleanup", "navigate"} => last.scheduled = 0

\* C25 witness: a click on the toggle anchor outside the open panel closed
\* it and left the timer queue empty.
C25_Witness ==
    /\ IdAnchorClicked /\ ~last.inside
    /\ last.wasOpen /\ ~IsOpen
    /\ last.hideCalls = 0 /\ timers = <<>>

\* The navigations waiting in the timer queue, oldest first.
Navigations == SelectSeq(timers, LAMBDA t : t.kind = "navigate")

\* One step puts the navigation of an intercepted click at the end of the
\* waiting ones, or runs the oldest of them, and does nothing else to them.
NavigationsAccounted ==
    IF last'.cb = "navigate"
    THEN /\ Navigations # <<>>
         /\ Navigations' = Tail(Navigations)
         /\ last'.href = Head(Navigations).href
         /\ last'.target = Head(Navigations).target
    ELSE IF last'.intercepted
    THEN Navigations' = Append(Navigations,
                               [kind |-> "navigate", timeout |-> config.delay + 10,
                                href |-> last'.href, target |-> last'.target])
    ELSE Navigations' = Navigations

\* C26: with hideOnClick every click on a link inside the panel whose href
\* is not an ignored one is intercepted, whether the panel is open or
\* closed, and sets exactly one navigation; no later callback takes a
\* waiting navigation out of the queue but its own run; the navigations run
\* in the order of the clicks; and while one waits a navigation does run,
\* whatever events arrive and whether the panel is open or closed by then.
C26_EveryInterceptedClickNavigates ==
    /\ []((config.hideOnClick /\ LinkClicked /\ ~IgnoredHref(last.href)) =>
            (last.intercepted /\ NavigationsSet = 1))
    /\ [][NavigationsAccounted]_vars
    /\ (Navigations # <<>>) ~> (last.cb = "navigate")

\* C26 witness: of two navigations set by clicks on the closed panel the
\* first, of the link with target "_blank", ran after the panel was opened,
\* and the second still waits.
C26_Witness ==
    /\ last.cb = "navigate" /\ last.opened = "window"
    /\ last.wasOpen /\ IsOpen
    /\ Len(Navigations) = 1 /\ Navigations[1].target = Undefined

\* The page alone: no panel event arrives.
PageInit ==
    /\ userConfig = NavPanelConfig
    /\ inits = 1
    /\ config = normalizeConfig(PanelDefaults, userConfig)
    /\ id = Str("navPanel")
    /\ targetClasses = {}
    /\ touchPosX = Undefined
    /\ touchPosY = Undefined
    /\ timers = <<>>
    /\ last = NoObs
    /\ dom = InitialDom
    /\ \E width \in Widths, icons \in SUBSET NavItems, degraded \in BOOLEAN,
          intensity \in Intensities, sections \in 0..MaxSections :
            \E alt \in SUBSET icons :
                page = LoadedPage(width, icons, alt, degraded, intensity, sections)

PageNext == WindowResize \/ WindowScroll

PageSpec == PageInit /\ [][PageNext]_vars

\* The original children of #nav, in their order.
NavContent == [k \in NavItems |-> k]

ParallaxHandlers(s) ==
    Cardinality({i \in 1..Len(page.scrollHandlers) : page.scrollHandlers[i] = s})

\* The background element of section s is in the disabled state.
ParallaxDisabled(s) ==
    /\ page.bg[s][1].fixed
    /\ page.bg[s][1].transform = TransformNone
    /\ ParallaxHandlers(s) = 0

====
